---- MODULE Spec2Model ----
(***************************************************************************)
(* mgrs2latlong (src/src/main.rs): the candidate classifier                *)
(* is_likely_mgrs, the normalisation in convert_mgrs_to_latlon, the column *)
(* detector detect_mgrs_column and the pipeline process_csv.               *)
(*                                                                         *)
(* A string is a sequence of characters, a character is a one-character    *)
(* string, and the alphabet is ASCII (there every char is one UTF-8 byte,  *)
(* so str::len, which counts bytes, is the sequence length).  A CSV record *)
(* is a sequence of strings.  Column indexes are zero-based as in the      *)
(* source; an Option<usize> is <<>> (None) or <<i>> (Some(i)).             *)
(***************************************************************************)
EXTENDS Integers, Sequences, FiniteSets

VARIABLES
    pc,             \* position of the run (process_csv) or of the function call
    file_headers,   \* the header record the CSV reader yields for the input file
    file_records,   \* the data records the CSV reader yields for the input file
    output_path,    \* cli.output: <<>> (stdout) or <<path>>
    headers,        \* process_csv: headers
    records,        \* process_csv: records / detect_mgrs_column: records
    column_scores,  \* detect_mgrs_column: column_scores after the scan
    mgrs_column,    \* the Option<usize> detect_mgrs_column returned
    file_created,   \* File::create(path) has succeeded
    written,        \* the records handed to writer.write_record, in order
    parse_calls,    \* the calls of Mgrs::parse_str: [row, arg, ok]
    row_idx,        \* process_csv: 1-based position of the `for record` loop
    error,          \* the context message of the error the run ended with
    summary,        \* the println! arguments: <<>> or <<records.len(), mgrs_column>>
    value,          \* is_likely_mgrs: the argument
    likely          \* is_likely_mgrs: <<>> before the call, <<result>> after

vars == << pc, file_headers, file_records, output_path, headers, records,
           column_scores, mgrs_column, file_created, written, parse_calls,
           row_idx, error, summary, value, likely >>

----------------------------------------------------------------------------
(* Bounds of the model and constants of the program *)

MaxRows == 2
MaxCols == 2
SampleLimit == 100
MinLength == 7

----------------------------------------------------------------------------
(* Character classes (ASCII) *)

Digits == {"0", "1", "2", "3", "4", "5", "6", "7", "8", "9"}

UpperLetters ==
    {"A", "B", "C", "D", "E", "F", "G", "H", "I", "J", "K", "L", "M",
     "N", "O", "P", "Q", "R", "S", "T", "U", "V", "W", "X", "Y", "Z"}

LowerLetters ==
    {"a", "b", "c", "d", "e", "f", "g", "h", "i", "j", "k", "l", "m",
     "n", "o", "p", "q", "r", "s", "t", "u", "v", "w", "x", "y", "z"}

\* U+000B, the vertical tab (the literal holds the character itself)
VerticalTab == ""

\* \s of the regex and char::is_whitespace of str::trim: the ASCII characters
\* with the White_Space property, U+0009 to U+000D and U+0020
Whitespace == {" ", "\t", "\n", VerticalTab, "\f", "\r"}

\* \d
DigitClass == Digits

\* (?i)[C-X]
BandClass ==
    {"C", "D", "E", "F", "G", "H", "I", "J", "K", "L", "M", "N", "O", "P",
     "Q", "R", "S", "T", "U", "V", "W", "X",
     "c", "d", "e", "f", "g", "h", "i", "j", "k", "l", "m", "n", "o", "p",
     "q", "r", "s", "t", "u", "v", "w", "x"}

\* (?i)[A-Z]
LetterClass == UpperLetters \cup LowerLetters

\* \w, which decides \b
WordClass == Digits \cup UpperLetters \cup LowerLetters \cup {"_"}

Min(a, b) == IF a <= b THEN a ELSE b

----------------------------------------------------------------------------
(* str::trim *)

RECURSIVE TrimStart(_)
TrimStart(s) ==
    IF s # <<>> /\ Head(s) \in Whitespace THEN TrimStart(Tail(s)) ELSE s

RECURSIVE TrimEnd(_)
TrimEnd(s) ==
    IF s # <<>> /\ s[Len(s)] \in Whitespace
    THEN TrimEnd(SubSeq(s, 1, Len(s) - 1))
    ELSE s

Trim(s) == TrimEnd(TrimStart(s))

----------------------------------------------------------------------------
(* Regex::is_match for (?i)\b\d{1,2}\s*[C-X]\s*[A-Z]{2}\s*\d{2,10}\b, as   *)
(* the set of positions the automaton can be at after each piece.  A       *)
(* position p in 1..Len(s)+1 stands between s[p-1] and s[p].               *)

\* the number of consecutive characters of class, from position p on
RECURSIVE RunLen(_, _, _)
RunLen(s, p, class) ==
    IF p <= Len(s) /\ s[p] \in class THEN 1 + RunLen(s, p + 1, class) ELSE 0

\* class{lo,hi} from every position of from
Repeat(s, from, class, lo, hi) ==
    UNION { { p + k : k \in lo .. Min(hi, RunLen(s, p, class)) } : p \in from }

\* class*
Star(s, from, class) == Repeat(s, from, class, 0, Len(s))

IsWordAt(s, p) == p >= 1 /\ p <= Len(s) /\ s[p] \in WordClass

\* \b
WordBoundary(s, p) == IsWordAt(s, p - 1) # IsWordAt(s, p)

MatchEnds(s) ==
    LET start  == { p \in 1 .. Len(s) + 1 : WordBoundary(s, p) }
        zone   == Repeat(s, start, DigitClass, 1, 2)
        gap1   == Star(s, zone, Whitespace)
        band   == Repeat(s, gap1, BandClass, 1, 1)
        gap2   == Star(s, band, Whitespace)
        square == Repeat(s, gap2, LetterClass, 2, 2)
        gap3   == Star(s, square, Whitespace)
        digits == Repeat(s, gap3, DigitClass, 2, 10)
    IN  { p \in digits : WordBoundary(s, p) }

is_match(s) == MatchEnds(s) # {}

is_likely_mgrs(v) == is_match(v) /\ Len(Trim(v)) >= MinLength

----------------------------------------------------------------------------
(* convert_mgrs_to_latlon.  Mgrs::parse_str and to_latlon belong to the    *)
(* geoconvert crate: whether the parse succeeds is an input of the call     *)
(* (parse_ok), and the coordinates of a successful parse are a fixed pair   *)
(* of non-empty decimal strings.                                            *)

None == <<>>
Some(x) == <<x>>

Empty == <<>>

\* mgrs_str.replace(" ", "")
ReplaceSpace(s) == SelectSeq(s, LAMBDA c : c # " ")

LatString == <<"2", "1", ".", "4">>
LonString == <<"-", "1", "5", "7", ".", "9">>

convert_mgrs_to_latlon(mgrs_str, parse_ok) ==
    LET normalized_mgrs == ReplaceSpace(mgrs_str)
    IN  [ arg |-> normalized_mgrs,
          ok  |-> parse_ok,
          lat |-> LatString,
          lon |-> LonString ]

----------------------------------------------------------------------------
(* detect_mgrs_column.  The scan's state is [panic, scores]: indexing       *)
(* column_scores beyond its length panics and ends the function.            *)

\* mutant of Sampled: the scan takes every record
SampledAll(recs) == recs

\* records.iter().take(100)
Sampled(recs) == SubSeq(recs, 1, Min(SampleLimit, Len(recs)))

\* vec![0; num_columns]
ZeroScores(num_columns) == [ c \in 1 .. num_columns |-> 0 ]

\* column_scores[col_idx] += 1
Bump(st, col_idx) ==
    IF col_idx < Len(st.scores)
    THEN [ st EXCEPT !.scores[col_idx + 1] = @ + 1 ]
    ELSE [ st EXCEPT !.panic = TRUE ]

\* for (col_idx, field) in record.iter().enumerate(), from col_idx on
RECURSIVE ScoreRecord(_, _, _)
ScoreRecord(st, record, col_idx) ==
    IF st.panic \/ col_idx >= Len(record)
    THEN st
    ELSE ScoreRecord(IF is_likely_mgrs(Trim(record[col_idx + 1]))
                     THEN Bump(st, col_idx)
                     ELSE st,
                     record, col_idx + 1)

\* for record in ..., from the i-th sampled record on
RECURSIVE ScoreRecords(_, _, _)
ScoreRecords(st, sample, i) ==
    IF st.panic \/ i > Len(sample)
    THEN st
    ELSE ScoreRecords(ScoreRecord(st, sample[i], 0), sample, i + 1)

\* mutant of MaxByKey: min_by_key in its place
RECURSIVE MinByKey(_, _, _)
MinByKey(scores, idx, best) ==
    IF idx >= Len(scores)
    THEN best
    ELSE MinByKey(scores, idx + 1,
                  IF best = -1 \/ scores[idx + 1] <= scores[best + 1]
                  THEN idx
                  ELSE best)

\* Iterator::max_by_key over enumerate(): of several maximal elements the
\* last one is returned.  best is the zero-based index so far, -1 for none.
RECURSIVE MaxByKey(_, _, _)
MaxByKey(scores, idx, best) ==
    IF idx >= Len(scores)
    THEN best
    ELSE MaxByKey(scores, idx + 1,
                  IF best = -1 \/ scores[idx + 1] >= scores[best + 1]
                  THEN idx
                  ELSE best)

\* mutant of SelectColumn: column 0 when no column scores
SelectColumnOrFirst(scores) ==
    IF scores # <<>> /\ scores[MaxByKey(scores, 0, -1) + 1] > 0
    THEN Some(MaxByKey(scores, 0, -1))
    ELSE Some(0)

\* .max_by_key(..).filter(|&(_, score)| *score > 0).map(|(idx, _)| idx)
SelectColumn(scores) ==
    LET best == MaxByKey(scores, 0, -1)
    IN  IF best # -1 /\ scores[best + 1] > 0 THEN Some(best) ELSE None

\* what the function ends with, given the scan's final state
Outcome(st) ==
    [ panic  |-> st.panic,
      scores |-> st.scores,
      result |-> IF st.panic THEN None ELSE SelectColumn(st.scores) ]

detect_mgrs_column(recs) ==
    IF recs = <<>>
    THEN [ panic |-> FALSE, scores |-> <<>>, result |-> None ]
    ELSE Outcome(ScoreRecords([ panic  |-> FALSE,
                                scores |-> ZeroScores(Len(recs[1])) ],
                              Sampled(recs), 1))

----------------------------------------------------------------------------
(* process_csv: the pieces of the run *)

Latitude == <<"L", "a", "t", "i", "t", "u", "d", "e">>
Longitude == <<"L", "o", "n", "g", "i", "t", "u", "d", "e">>

\* mutant of NewHeaders: the two names are pushed before the input headers
NewHeadersInFront(hdrs) == << Latitude, Longitude >> \o hdrs

\* new_headers
NewHeaders(hdrs) == hdrs \o << Latitude, Longitude >>

\* record.get(mgrs_column).unwrap_or("").trim()
MgrsValue(record, col) ==
    Trim(IF col < Len(record) THEN record[col + 1] ELSE Empty)

\* mutant of Attempts: the classifier is not consulted
AttemptsNonEmpty(mgrs_value) == mgrs_value # Empty

\* whether the row's value goes to convert_mgrs_to_latlon
Attempts(mgrs_value) == mgrs_value # Empty /\ is_likely_mgrs(mgrs_value)

\* mutant of LatLonStrings: a rejected value yields the default coordinates
LatLonStringsOrZero(conv) ==
    IF conv.ok THEN << conv.lat, conv.lon >> ELSE << <<"0">>, <<"0">> >>

\* the match on the conversion's Result
LatLonStrings(conv) ==
    IF conv.ok THEN << conv.lat, conv.lon >> ELSE << Empty, Empty >>

\* the body of `for record in &records`: the record written and the calls
\* of Mgrs::parse_str it makes
ProcessRecord(record, col, parse_ok) ==
    LET mgrs_value == MgrsValue(record, col)
    IN  IF Attempts(mgrs_value)
        THEN LET conv == convert_mgrs_to_latlon(mgrs_value, parse_ok)
             IN  [ new_record |-> record \o LatLonStrings(conv),
                   calls      |-> << [ arg |-> conv.arg, ok |-> conv.ok ] >> ]
        ELSE [ new_record |-> record \o << Empty, Empty >>,
               calls      |-> << >> ]

ErrOpen == "Failed to open input file"
ErrHeaders == "csv error reading headers"
ErrRecord == "Failed to read CSV record"
\* the same context, when the cause is the reader's rejection of a record
\* whose field count differs from that of the header record
ErrUnequalLengths == "Failed to read CSV record: unequal lengths"
ErrNoColumn == "No MGRS-like column detected in the CSV file"
ErrCreate == "Failed to create output file"
ErrWriteHeaders == "Failed to write headers"
ErrWriteRecord == "Failed to write record"
ErrFlush == "Failed to flush output"
PanicStdout == "failed printing to stdout"

----------------------------------------------------------------------------
(* Inputs *)

SeqsUpTo(S, n) == UNION { [ 1 .. k -> S ] : k \in 0 .. n }

NotCoord == <<"B", "o", "b">>
Spaced == <<"4", "Q", " ", "F", "J", "1", "2">>
Tabbed == <<"4", "Q", "\t", "F", "J", "1", "2">>
Compact == <<"4", "Q", "F", "J", "1", "2">>
VTabbed == <<"4", "Q", VerticalTab, "F", "J", "1", "2">>
VLead == <<VerticalTab, "4", "Q", "F", "J", "1", "2">>
Blank == <<" ", VerticalTab>>
Padded == <<" ", "4", "Q", "F", "J", "1", "2", "3", "4", " ">>

\* the fields of the input file of a run
FileFields == { VLead, Spaced }

\* the fields of the records given to detect_mgrs_column
DetectFields == { VLead, VTabbed }

\* the fields of the record given to the loop body
RowFields ==
    { Empty, Blank, NotCoord, Compact, Spaced, Tabbed, VTabbed, VLead, Padded }

HeaderNames == << <<"i", "d">>, <<"p", "o", "s">>, <<"n", "a", "m", "e">> >>

HeaderRecord(n) ==
    [ c \in 1 .. n |-> IF c <= Len(HeaderNames) THEN HeaderNames[c] ELSE <<"c">> ]

\* n records of w fields none of which looks like a coordinate
PadRecords(n, w) == [ i \in 1 .. n |-> [ c \in 1 .. w |-> NotCoord ] ]

\* the records of n fields a file may hold
FileRows(n) == [ 1 .. n -> FileFields ]

\* the records a file may hold: the field counts (one or more) are free,
\* whatever the header record's.  A file is short (up to MaxRows records) or
\* long (SampleLimit records without a coordinate, then up to one more).
AnyFileRows == UNION { FileRows(w) : w \in 1 .. MaxCols }

\* Reader::from_reader builds a reader with flexible(false): a record whose
\* field count differs from the header record's is an error of the reader
UnequalLengths(hdr, recs) == \E i \in 1 .. Len(recs) : Len(recs[i]) # Len(hdr)

\* any slice of records: the field counts are free.  Short, or long
\* (SampleLimit - 1 or SampleLimit records of w fields without a
\* coordinate, then up to two more).
DetectRows == SeqsUpTo(DetectFields, MaxCols)

RowInputs == SeqsUpTo(RowFields, MaxCols)

ZoneParts == { <<>>, <<"4">>, <<"4", "8">>, <<"1", "4", "8">> }
BandParts == { <<"B">>, <<"C">>, <<"I">>, <<"O">>, <<"X">>, <<"Y">>, <<"q">> }
SquareParts == { <<"F">>, <<"F", "j">>, <<"F", "J", "K">> }
NumberParts ==
    { <<"1">>, <<"1", "2">>,
      <<"1", "2", "3", "4", "5", "6", "7", "8", "9", "0">>,
      <<"1", "2", "3", "4", "5", "6", "7", "8", "9", "0", "1">> }
GapParts == { <<>>, <<" ">>, <<"\t", VerticalTab>> }
EdgeParts == { <<>>, <<" ">>, <<VerticalTab>>, <<"z">> }

ClassifyInputs ==
    { pre \o zone \o g1 \o band \o g2 \o square \o g2 \o number \o post :
        pre \in EdgeParts, zone \in ZoneParts, g1 \in GapParts,
        band \in BandParts, g2 \in { <<>>, <<" ">> }, square \in SquareParts,
        number \in NumberParts, post \in EdgeParts }

----------------------------------------------------------------------------
(* process_csv, one action per step of the run *)

Idle ==
    /\ headers = <<>> /\ records = <<>> /\ column_scores = <<>>
    /\ mgrs_column = None /\ file_created = FALSE /\ written = <<>>
    /\ parse_calls = <<>> /\ row_idx = 1 /\ error = "" /\ summary = <<>>
    /\ value = <<>> /\ likely = <<>>

Init ==
    /\ pc = "open"
    /\ \E n \in 1 .. MaxCols :
         /\ file_headers = HeaderRecord(n)
         /\ \/ \E k \in 0 .. MaxRows :
                  file_records \in [ 1 .. k -> AnyFileRows ]
            \/ \E k \in 0 .. 1 : \E body \in [ 1 .. k -> AnyFileRows ] :
                  file_records = PadRecords(SampleLimit, n) \o body
    /\ output_path \in { None, Some("out.csv") }
    /\ Idle

Fatal(msg) == pc' = "fatal" /\ error' = msg

\* File::open(input_path)
OpenInput ==
    /\ pc = "open"
    /\ \E ok \in BOOLEAN :
         IF ok THEN pc' = "read_headers" /\ error' = error ELSE Fatal(ErrOpen)
    /\ UNCHANGED << file_headers, file_records, output_path, headers, records,
                    column_scores, mgrs_column, file_created, written,
                    parse_calls, row_idx, summary, value, likely >>

\* reader.headers()?.clone()
ReadHeaders ==
    /\ pc = "read_headers"
    /\ \E ok \in BOOLEAN :
         IF ok
         THEN pc' = "read_records" /\ headers' = file_headers /\ error' = error
         ELSE Fatal(ErrHeaders) /\ headers' = headers
    /\ UNCHANGED << file_headers, file_records, output_path, records,
                    column_scores, mgrs_column, file_created, written,
                    parse_calls, row_idx, summary, value, likely >>

\* for result in reader.records() { records.push(result?) }
ReadRecords ==
    /\ pc = "read_records"
    /\ \E ok \in BOOLEAN :
         IF ~ ok
         THEN Fatal(ErrRecord) /\ records' = records
         ELSE IF UnequalLengths(headers, file_records)
         THEN Fatal(ErrUnequalLengths) /\ records' = records
         ELSE pc' = "detect" /\ records' = file_records /\ error' = error
    /\ UNCHANGED << file_headers, file_records, output_path, headers,
                    column_scores, mgrs_column, file_created, written,
                    parse_calls, row_idx, summary, value, likely >>

\* detect_mgrs_column(&records).with_context(..)?
Detect ==
    /\ pc = "detect"
    /\ \E d \in { detect_mgrs_column(records) } :
           /\ column_scores' = d.scores
           /\ mgrs_column' = d.result
           /\ IF d.panic THEN pc' = "panic" /\ error' = error
              ELSE IF d.result = None THEN Fatal(ErrNoColumn)
              ELSE pc' = "create_output" /\ error' = error
    /\ UNCHANGED << file_headers, file_records, output_path, headers, records,
                    file_created, written, parse_calls, row_idx, summary,
                    value, likely >>

\* match output_path { Some(path) => File::create(path)?, None => stdout }
CreateOutput ==
    /\ pc = "create_output"
    /\ IF output_path = None
       THEN pc' = "write_headers" /\ file_created' = FALSE /\ error' = error
       ELSE \E ok \in BOOLEAN :
              IF ok
              THEN pc' = "write_headers" /\ file_created' = TRUE /\ error' = error
              ELSE Fatal(ErrCreate) /\ file_created' = FALSE
    /\ UNCHANGED << file_headers, file_records, output_path, headers, records,
                    column_scores, mgrs_column, written, parse_calls, row_idx,
                    summary, value, likely >>

\* writer.write_record(&new_headers)
WriteHeaders ==
    /\ pc = "write_headers"
    /\ \E ok \in BOOLEAN :
         IF ok
         THEN /\ pc' = "write_record"
              /\ written' = Append(written, NewHeaders(headers))
              /\ error' = error
         ELSE Fatal(ErrWriteHeaders) /\ written' = written
    /\ UNCHANGED << file_headers, file_records, output_path, headers, records,
                    column_scores, mgrs_column, file_created, parse_calls,
                    row_idx, summary, value, likely >>

\* one turn of `for record in &records`
WriteRecord ==
    /\ pc = "write_record"
    /\ row_idx <= Len(records)
    /\ \E parse_ok \in BOOLEAN, ok \in BOOLEAN :
         \E r \in { ProcessRecord(records[row_idx], mgrs_column[1], parse_ok) } :
             /\ parse_calls' = parse_calls \o
                    [ k \in 1 .. Len(r.calls) |->
                        [ row |-> row_idx, arg |-> r.calls[k].arg,
                          ok |-> r.calls[k].ok ] ]
             /\ IF ok
                THEN /\ written' = Append(written, r.new_record)
                     /\ row_idx' = row_idx + 1
                     /\ pc' = pc /\ error' = error
                ELSE /\ Fatal(ErrWriteRecord)
                     /\ written' = written /\ row_idx' = row_idx
    /\ UNCHANGED << file_headers, file_records, output_path, headers, records,
                    column_scores, mgrs_column, file_created, summary, value,
                    likely >>

\* writer.flush()
Flush ==
    /\ pc = "write_record"
    /\ row_idx > Len(records)
    /\ \E ok \in BOOLEAN :
         IF ok THEN pc' = "summary" /\ error' = error ELSE Fatal(ErrFlush)
    /\ UNCHANGED << file_headers, file_records, output_path, headers, records,
                    column_scores, mgrs_column, file_created, written,
                    parse_calls, row_idx, summary, value, likely >>

\* println!("Processed {} records. MGRS column detected at index {}.", ..):
\* the macro panics when standard output cannot be written
Summary ==
    /\ pc = "summary"
    /\ \E ok \in BOOLEAN :
         IF ok
         THEN /\ summary' = << Len(records), mgrs_column[1] >>
              /\ pc' = "done" /\ error' = error
         ELSE /\ summary' = summary
              /\ pc' = "panic" /\ error' = PanicStdout
    /\ UNCHANGED << file_headers, file_records, output_path, headers, records,
                    column_scores, mgrs_column, file_created, written,
                    parse_calls, row_idx, value, likely >>

Next ==
    \/ OpenInput
    \/ ReadHeaders
    \/ ReadRecords
    \/ Detect
    \/ CreateOutput
    \/ WriteHeaders
    \/ WriteRecord
    \/ Flush
    \/ Summary

Spec == Init /\ [][Next]_vars

----------------------------------------------------------------------------
(* The functions on their own, applied to arguments of any shape *)

FnInit ==
    /\ file_headers = <<>> /\ file_records = <<>> /\ output_path = None
    /\ headers = <<>> /\ column_scores = <<>> /\ file_created = FALSE
    /\ written = <<>> /\ parse_calls = <<>> /\ row_idx = 1 /\ error = ""
    /\ summary = <<>> /\ likely = <<>>
    /\ \/ /\ pc = "call_classify"
          /\ value \in ClassifyInputs
          /\ records = <<>> /\ mgrs_column = None
       \/ /\ pc = "call_detect"
          /\ \/ \E k \in 0 .. MaxRows : records \in [ 1 .. k -> DetectRows ]
             \/ \E npad \in { SampleLimit - 1, SampleLimit }, w \in 0 .. MaxCols,
                   k \in 0 .. 2 : \E body \in [ 1 .. k -> DetectRows ] :
                  records = PadRecords(npad, w) \o body
          /\ value = <<>> /\ mgrs_column = None
       \/ /\ pc = "call_row"
          /\ \E record \in RowInputs : records = << record >>
          /\ \E col \in 0 .. MaxCols : mgrs_column = Some(col)
          /\ value = <<>>

\* is_likely_mgrs(value)
ClassifyCall ==
    /\ pc = "call_classify"
    /\ likely' = Some(is_likely_mgrs(value))
    /\ pc' = "ret_classify"
    /\ UNCHANGED << file_headers, file_records, output_path, headers, records,
                    column_scores, mgrs_column, file_created, written,
                    parse_calls, row_idx, error, summary, value >>

\* detect_mgrs_column(records)
DetectCall ==
    /\ pc = "call_detect"
    /\ \E d \in { detect_mgrs_column(records) } :
           /\ column_scores' = d.scores
           /\ mgrs_column' = d.result
           /\ pc' = IF d.panic THEN "panic" ELSE "ret_detect"
    /\ UNCHANGED << file_headers, file_records, output_path, headers, records,
                    file_created, written, parse_calls, row_idx, error,
                    summary, value, likely >>

\* the loop body of process_csv on one record
RowCall ==
    /\ pc = "call_row"
    /\ \E parse_ok \in BOOLEAN :
         \E r \in { ProcessRecord(records[1], mgrs_column[1], parse_ok) } :
             /\ parse_calls' =
                    [ k \in 1 .. Len(r.calls) |->
                        [ row |-> 1, arg |-> r.calls[k].arg,
                          ok |-> r.calls[k].ok ] ]
             /\ written' = << r.new_record >>
    /\ pc' = "ret_row"
    /\ UNCHANGED << file_headers, file_records, output_path, headers, records,
                    column_scores, mgrs_column, file_created, row_idx, error,
                    summary, value, likely >>

FnNext ==
    \/ ClassifyCall
    \/ DetectCall
    \/ RowCall

FnSpec == FnInit /\ [][FnNext]_vars

----------------------------------------------------------------------------
(* What the claims speak of, stated without the code's loops *)

\* the run is past detect_mgrs_column
PastDetect ==
    \/ pc \in { "create_output", "write_headers", "write_record", "summary",
                "done", "panic" }
    \/ pc = "fatal" /\ error \notin { ErrOpen, ErrHeaders, ErrRecord, ErrUnequalLengths }

\* the field of column c (zero-based) of the i-th record is classifier-positive
PositiveAt(recs, i, c) ==
    c < Len(recs[i]) /\ is_likely_mgrs(Trim(recs[i][c + 1]))

\* the number of records among the first n whose column c is positive
PositivesIn(recs, n, c) ==
    Cardinality({ i \in 1 .. Min(n, Len(recs)) : PositiveAt(recs, i, c) })

\* the columns of the dataset: those of its first record
ColumnsOf(recs) == IF recs = <<>> THEN {} ELSE 0 .. Len(recs[1]) - 1

\* c is the one column with a positive value among the first n records
OnlyPositiveColumn(recs, n, c) ==
    /\ PositivesIn(recs, n, c) > 0
    /\ \A i \in 1 .. Min(n, Len(recs)) : \A e \in 0 .. Len(recs[i]) - 1 :
         PositiveAt(recs, i, e) => e = c

\* the columns whose score is the greatest
TopColumns(scores) ==
    { c \in 0 .. Len(scores) - 1 :
        \A e \in 0 .. Len(scores) - 1 : scores[e + 1] <= scores[c + 1] }

\* the least element of a non-empty set of numbers
Least(S) == CHOOSE x \in S : \A y \in S : x <= y

AllIn(s, a, b, class) == \A j \in a .. b : s[j] \in class

\* the band letters the specification allows, in either case
SpecBandClass == BandClass \ { "I", "O", "i", "o" }

\* s has, from position a, zone digits, a band letter of bands, two square
\* letters and 2 to 10 digits, with optional whitespace between the groups
\* and a word boundary on either side
GridAt(s, a, bands) ==
    /\ WordBoundary(s, a)
    /\ \E z \in 1 .. 2 :
         /\ a + z - 1 <= Len(s)
         /\ AllIn(s, a, a + z - 1, Digits)
         /\ \E b \in a + z .. Len(s) :
              /\ AllIn(s, a + z, b - 1, Whitespace)
              /\ s[b] \in bands
              /\ \E q \in b + 1 .. Len(s) - 1 :
                   /\ AllIn(s, b + 1, q - 1, Whitespace)
                   /\ s[q] \in LetterClass /\ s[q + 1] \in LetterClass
                   /\ \E d \in q + 2 .. Len(s) :
                        /\ AllIn(s, q + 2, d - 1, Whitespace)
                        /\ \E m \in 2 .. 10 :
                             /\ d + m - 1 <= Len(s)
                             /\ AllIn(s, d, d + m - 1, Digits)
                             /\ WordBoundary(s, d + m)

ContainsGrid(s, bands) == \E a \in 1 .. Len(s) : GridAt(s, a, bands)

----------------------------------------------------------------------------
(* The claims *)

\* C1: when two or more columns share the same maximal, nonzero score, the
\* column detect_mgrs_column returns is the lowest index among the tied ones.
C1_TieLowestIndex ==
    (PastDetect /\ ~ (pc = "panic" /\ error # PanicStdout)) =>
        LET top == TopColumns(column_scores)
        IN  (Cardinality(top) >= 2 /\ column_scores[Least(top) + 1] > 0) =>
                mgrs_column = Some(Least(top))

\* C2 as stated: when exactly one column holds a classifier-positive value in
\* any record of the whole dataset, that column is the one detected.
C2_OnlyColumnAnywhere ==
    PastDetect =>
        \A c \in ColumnsOf(records) :
            OnlyPositiveColumn(records, Len(records), c) => mgrs_column = Some(c)

\* C2 amended: when exactly one column holds a classifier-positive value
\* within the first 100 records, that column is the one detected, whatever
\* its position.
C2_OnlyColumnInSample ==
    PastDetect =>
        \A c \in ColumnsOf(records) :
            OnlyPositiveColumn(records, SampleLimit, c) => mgrs_column = Some(c)

C2_Witness ==
    /\ pc = "done"
    /\ Len(records) >= 2
    /\ Len(records[1]) >= 2
    /\ OnlyPositiveColumn(records, SampleLimit, 1)
    /\ mgrs_column = Some(1)

\* C3: whenever detection yields none (no data records, or no column scoring
\* above zero over the sample) the run ends with the 'No MGRS-like column
\* detected' error, no column is assumed, the output file is never created
\* and nothing is written or reported.
C3_NoColumnIsFatal ==
    (PastDetect /\ \A c \in ColumnsOf(file_records) :
                       PositivesIn(file_records, SampleLimit, c) = 0) =>
        /\ pc = "fatal"
        /\ error = ErrNoColumn
        /\ mgrs_column = None
        /\ file_created = FALSE
        /\ written = <<>>
        /\ summary = <<>>

C3_Witness ==
    /\ pc = "fatal"
    /\ error = ErrNoColumn
    /\ Len(records) > SampleLimit
    /\ \E c \in ColumnsOf(records) : PositiveAt(records, Len(records), c)
    /\ output_path # None
    /\ file_created = FALSE

\* C4: what a run writes is the header record (the input headers, then
\* Latitude and Longitude) first, then one record per input record in the
\* input's order, each the input record's fields followed by two more; a run
\* that succeeds has written all of them.
C4_OutputShape ==
    /\ written # <<>> => written[1] = file_headers \o << Latitude, Longitude >>
    /\ Len(written) <= Len(file_records) + 1
    /\ \A i \in 2 .. Len(written) :
         /\ Len(written[i]) = Len(file_records[i - 1]) + 2
         /\ SubSeq(written[i], 1, Len(file_records[i - 1])) = file_records[i - 1]
    /\ pc \in { "summary", "done", "panic" } => Len(written) = Len(file_records) + 1

C4_Witness ==
    /\ pc = "done"
    /\ Len(file_records) >= 2
    /\ file_records[1] # file_records[2]
    /\ Len(written) = Len(file_records) + 1

\* C5: a record whose value in the detected column is absent, empty,
\* whitespace-only or classifier-negative is written as its own fields
\* followed by two empty strings, and Mgrs::parse_str is not called for it.
C5_BlankPropagation ==
    pc = "ret_row" =>
        LET record == records[1]
            col == mgrs_column[1]
        IN  (\/ col >= Len(record)
             \/ AllIn(record[col + 1], 1, Len(record[col + 1]), Whitespace)
             \/ ~ is_likely_mgrs(record[col + 1])) =>
                /\ written = << record \o << Empty, Empty >> >>
                /\ parse_calls = <<>>

C5_Witness ==
    /\ pc = "ret_row"
    /\ Len(records[1]) = 2
    /\ mgrs_column = Some(1)
    /\ records[1][1] = Spaced
    /\ records[1][2] = Compact
    /\ written = << << Spaced, Compact, Empty, Empty >> >>

\* C6: a record whose conversion is rejected is written with two empty
\* trailing fields, the loop goes on with the next record, and a run that
\* reaches its end has written every record and reports the number of input
\* records; the only errors a run ends with are those of I/O and of
\* detection, and the only panic of a run is that of printing the summary,
\* after every record is written, whatever the conversions returned.
C6_RejectionIsRowLocal ==
    /\ \A k \in 1 .. Len(parse_calls) :
         (~ parse_calls[k].ok /\ Len(written) > parse_calls[k].row) =>
             written[parse_calls[k].row + 1] =
                 file_records[parse_calls[k].row] \o << Empty, Empty >>
    /\ (pc = "write_record" /\ parse_calls # <<>>) => ENABLED (WriteRecord \/ Flush)
    /\ pc = "fatal" =>
         error \in { ErrOpen, ErrHeaders, ErrRecord, ErrUnequalLengths,
                     ErrNoColumn, ErrCreate,
                     ErrWriteHeaders, ErrWriteRecord, ErrFlush }
    /\ pc = "done" =>
         /\ summary = << Len(file_records), mgrs_column[1] >>
         /\ Len(written) = Len(file_records) + 1
    /\ pc = "panic" =>
         /\ error = PanicStdout
         /\ Len(written) = Len(file_records) + 1
    /\ pc = "summary" => ENABLED Summary

C6_Witness ==
    /\ pc = "done"
    /\ Len(parse_calls) >= 2
    /\ ~ parse_calls[1].ok
    /\ parse_calls[2].ok
    /\ written[parse_calls[2].row + 1] =
           file_records[parse_calls[2].row] \o << LatString, LonString >>
    /\ summary[1] = Len(file_records)

\* C7: is_likely_mgrs is true exactly when the trimmed value has at least 7
\* characters and the value contains, word-bounded and in either case, 1-2
\* digits, a band letter from C to X other than I and O, two letters and 2 to
\* 10 digits, with optional whitespace between the groups.
C7_ClassifierExact ==
    pc = "ret_classify" =>
        likely = Some(Len(Trim(value)) >= 7 /\ ContainsGrid(value, SpecBandClass))

\* C8: the string handed to Mgrs::parse_str holds no whitespace character.
C8_NoWhitespaceReachesParser ==
    \A k \in 1 .. Len(parse_calls) :
        \A j \in 1 .. Len(parse_calls[k].arg) :
            parse_calls[k].arg[j] \notin Whitespace

\* C9: detect_mgrs_column gives on any records what it gives on their first
\* min(100, n) records, and each column's score is the number of those
\* records whose trimmed field in that column is classifier-positive.
C9_PrefixSampleDecides ==
    pc \in { "ret_detect", "panic" } =>
        \E d \in { detect_mgrs_column(SubSeq(records, 1, Min(100, Len(records)))) } :
            /\ d.panic = (pc = "panic")
            /\ d.result = mgrs_column
            /\ pc = "ret_detect" =>
                 /\ Len(column_scores) = Cardinality(ColumnsOf(records))
                 /\ \A c \in ColumnsOf(records) :
                      column_scores[c + 1] = PositivesIn(records, 100, c)

C9_Witness ==
    /\ pc = "ret_detect"
    /\ Len(records) = 101
    /\ PositiveAt(records, 100, 0)
    /\ PositiveAt(records, 101, 1)
    /\ ~ PositiveAt(records, 101, 0)
    /\ mgrs_column = Some(0)
    /\ column_scores = << 1, 0 >>

\* C10: rows of any field count are handled without failure: no run ends
\* because a row has fewer or more fields than the header record, and
\* detect_mgrs_column completes without addressing a score outside
\* 0 .. number of columns - 1, and a record the detected column is out of
\* range for is written with two empty fields.
C10_AnyFieldCount ==
    /\ ~ (pc = "fatal" /\ error = ErrUnequalLengths)
    /\ ~ (pc = "panic" /\ error # PanicStdout)
    /\ \A i \in 1 .. Len(written) - 1 :
         (mgrs_column # None /\ mgrs_column[1] >= Len(file_records[i])) =>
             written[i + 1] = file_records[i] \o << Empty, Empty >>

====
